---- MODULE Spec2Model ----
(***************************************************************************)
(* A model of the Building Insights section of js-solar-potential:         *)
(*   src/src/routes/sections/BuildingInsightsSection.svelte                *)
(*   src/src/routes/components/InputBool.svelte                            *)
(*                                                                         *)
(* The component is a single-threaded, event-driven state machine.  Every  *)
(* action below is one macrotask of the browser (a prop change, a click,   *)
(* a timer callback, the continuation of the awaited fetch) followed by    *)
(* the Svelte flush of the reactive statements ($:) it invalidated.        *)
(*                                                                         *)
(* Lengths are in metres; the corners of a segment box are in tenths of a  *)
(* metre, so that the 10% padding and the halving stay exact.              *)
(***************************************************************************)
EXTENDS Integers, Sequences, FiniteSets

\* JavaScript's undefined and NaN, and a number that is neither.
Undefined == [undefined |-> TRUE]
NaN == [nan |-> TRUE]
Num(n) == [value |-> n]

\* ------------------------------------------------------------- bounds
\* Pending zero-delay timers of one kind (panel / segment visibility).
MaxTimers == 2
\* Pending 50 ms timers set by showSolarPotential.
MaxRenderTimers == 1
\* Local panel coordinates range over -MaxCoord..MaxCoord metres.
MaxCoord == 2
\* Member panels of a segment in the bounding-box specification.
MaxMembers == 2
\* Characters of a segment filter string in the filter specification.
MaxFilterLen == 3
\* Yearly yields range over 0..MaxYield, segment indices over 0..MaxSegment
\* and responses hold at most MaxPanels panels in the rendering specification.
MaxYield == 3
MaxSegment == 2
MaxPanels == 3

\* ---------------------------------------------------- program constants
\* const minSize = 2.0; // Minimum size in meters
minSize == 2

VARIABLES
  location,            \* export let location (the prop, as last set by the parent)
  buildingInsights,    \* export let buildingInsights
  configId,            \* export let configId
  showPanels,          \* export let showPanels
  requestSent,         \* let requestSent
  requestError,        \* let requestError
  showSegments,        \* let showSegments
  segmentFilter,       \* let segmentFilter (a sequence of characters)
  disableAnimation,    \* let disableAnimation
  panelConfig,         \* let panelConfig
  solarPanels,         \* let solarPanels: google.maps.Polygon[]
  roofSegmentPolygons, \* let roofSegmentPolygons: google.maps.Polygon[]
  roofSegmentLabels,   \* let roofSegmentLabels: google.maps.Marker[]
  fetches,             \* outstanding findClosestBuilding calls, in issue order
  panelTimers,         \* pending setTimeout(() => updatePanelVisibility(), 0)
  segmentTimers,       \* pending setTimeout(() => updateSegmentVisibility(), 0)
  renderTimers,        \* pending 50 ms timers of showSolarPotential
  selected,            \* md-switch.selected of the three InputBool switches
  clicks,              \* per switch: its InputBool.onClick timer is pending
  orphans,             \* shapes attached to the map that no list holds any more
  event,               \* the handler that ran last, and how it ended
  input,               \* the input of a pure computation (unit specifications)
  output               \* its result

vars == <<location, buildingInsights, configId, showPanels, requestSent,
          requestError, showSegments, segmentFilter, disableAnimation,
          panelConfig, solarPanels, roofSegmentPolygons, roofSegmentLabels,
          fetches, panelTimers, segmentTimers, renderTimers, selected, clicks,
          orphans, event, input, output>>

\* ------------------------------------------------ the Solar API's answers
\* The component receives its data from findClosestBuilding (../solar), which
\* either resolves with a BuildingInsightsResponse or rejects with a
\* RequestError {error: {code, message, status}}.
Locations == {1, 2}

Errors ==
  { [code |-> 404, status |-> "NOT_FOUND", message |-> "Requested entity was not found."],
    [code |-> 500, status |-> "INTERNAL", message |-> "Internal error."] }

\* A SolarPanel of the response.  (x, y) is the panel centre relative to the
\* centre of its roof segment, in the roof-aligned axes that lines 245-264
\* compute with the SDK's computeHeading and computeDistanceBetween.
Panel(e, s, px, py) ==
  [yearlyEnergyDcKwh |-> e, segmentIndex |-> s, x |-> px, y |-> py]

\* What the API answers for a location: a roof with panels on segments 0 and
\* 2 of its three segments, and a roof too small to hold any panel.
BuildingAt(l) ==
  CASE l = 1 ->
         [name |-> 1,
          solarPanels |-> << Panel(200, 0, -2, 0), Panel(150, 2, 1, 1),
                             Panel(100, 0, 2, 0) >>,
          roofSegmentStats |-> 3,
          solarPanelConfigs |-> << [panelsCount |-> 1], [panelsCount |-> 3] >>]
    [] OTHER ->
         [name |-> l,
          solarPanels |-> << >>,
          roofSegmentStats |-> 1,
          solarPanelConfigs |-> << >>]

\* ---------------------------------------------------------- arithmetic
\* normalize(x, max, min) of ../visualize: (x - min) / (max - min), clamped
\* to [0, 1]; a fraction [num, den] with den > 0.  In JavaScript 0 / 0 is
\* NaN and clamping keeps it; k / 0 is +-Infinity, which clamps to 1 or 0.
normalize(x, max, min) ==
  LET n == IF max >= min THEN x - min ELSE min - x
      d == IF max >= min THEN max - min ELSE min - max
  IN  IF d = 0
      THEN IF n = 0 THEN NaN
           ELSE IF n > 0 THEN [num |-> 1, den |-> 1] ELSE [num |-> 0, den |-> 1]
      ELSE IF n < 0 THEN [num |-> 0, den |-> 1]
           ELSE IF n > d THEN [num |-> 1, den |-> 1]
           ELSE [num |-> n, den |-> d]

\* Math.round(q * 255): the nearest integer, halves rounded up; NaN stays NaN.
RoundTimes255(q) ==
  IF q = NaN THEN NaN ELSE Num((2 * 255 * q.num + q.den) \div (2 * q.den))

\* const colorIndex = Math.round(normalize(panel.yearlyEnergyDcKwh, maxEnergy, minEnergy) * 255);
colorIndex(panel, maxEnergy, minEnergy) ==
  RoundTimes255(normalize(panel.yearlyEnergyDcKwh, maxEnergy, minEnergy))

\* palette[colorIndex] of the 256 colours of createPalette(panelsPalette):
\* indexing an array with anything but 0..255 gives undefined.
palette(i) ==
  IF i # NaN /\ i.value \in 0..255 THEN [color |-> i.value] ELSE Undefined

\* ------------------------------------------------------- solar panels
\* solarPotential.solarPanels.slice(-1)[0] and solarPotential.solarPanels[0]
minEnergy(panels) == panels[Len(panels)].yearlyEnergyDcKwh
maxEnergy(panels) == panels[1].yearlyEnergyDcKwh

\* solarPanels = solarPotential.solarPanels.map((panel) => new google.maps.Polygon({...}))
\* A polygon made without a map option is not attached to any map.
PanelPolygons(panels) ==
  [i \in 1..Len(panels) |->
     [fillColor |-> palette(colorIndex(panels[i], maxEnergy(panels), minEnergy(panels))),
      map |-> FALSE]]

\* ------------------------------------------------------ roof segments
\* The keys of the segmentPanels Map, in insertion order: each segment index
\* in the order in which the panels first name it.
segmentIndices(panels) ==
  LET keys[i \in 0..Len(panels)] ==
        IF i = 0 THEN << >>
        ELSE IF \E j \in 1..Len(keys[i-1]) : keys[i-1][j] = panels[i].segmentIndex
             THEN keys[i-1]
             ELSE Append(keys[i-1], panels[i].segmentIndex)
  IN  keys[Len(panels)]

\* segmentPanels.get(segmentIndex)
segmentPanels(panels, segmentIndex) ==
  SelectSeq(panels, LAMBDA p : p.segmentIndex = segmentIndex)

\* relativePositions: the members' local (x, y), in metres.
relativePositions(members) ==
  [i \in 1..Len(members) |-> [x |-> members[i].x, y |-> members[i].y]]

MinOf(S) == CHOOSE m \in S : \A n \in S : m <= n
MaxOf(S) == CHOOSE m \in S : \A n \in S : m >= n

\* minX -= paddingX; maxX += paddingX with padding = (max - min) * 0.1.
\* lo and hi are in metres, the result is in tenths of a metre.
PadAxis(lo, hi) == << 10 * lo - (hi - lo), 10 * hi + (hi - lo) >>

\* The minimum size left out.
ClampAxisOff(a) == a

\* if (max - min < minSize) { center = (max + min) / 2; min = center -
\* minSize/2; max = center + minSize/2 }, in tenths of a metre.
ClampAxis(a) ==
  IF a[2] - a[1] < 10 * minSize
  THEN LET center == (a[2] + a[1]) \div 2
       IN  << center - (10 * minSize) \div 2, center + (10 * minSize) \div 2 >>
  ELSE a

\* The box whose corners become the segment polygon's path.
BoundingBox(positions) ==
  LET xs == { positions[i].x : i \in 1..Len(positions) }
      ys == { positions[i].y : i \in 1..Len(positions) }
      bx == ClampAxis(PadAxis(MinOf(xs), MaxOf(xs)))
      by == ClampAxis(PadAxis(MinOf(ys), MaxOf(ys)))
  IN  [minX |-> bx[1], maxX |-> bx[2], minY |-> by[1], maxY |-> by[2]]

\* if (panelPositions.length > 0)
HasMembers(members) == Len(members) > 0

\* The segments of segmentPanels.forEach that get a polygon and a label.
DrawnSegments(panels) ==
  SelectSeq(segmentIndices(panels),
            LAMBDA k : HasMembers(segmentPanels(panels, k)))

\* segmentPolygon, with segmentPolygon.segmentIndex = segmentIndex
SegmentPolygons(panels) ==
  LET ks == DrawnSegments(panels)
  IN  [i \in 1..Len(ks) |->
         [segmentIndex |-> ks[i], map |-> FALSE,
          box |-> BoundingBox(relativePositions(segmentPanels(panels, ks[i])))]]

\* label, with label.segmentIndex = segmentIndex
SegmentLabels(panels) ==
  LET ks == DrawnSegments(panels)
  IN  [i \in 1..Len(ks) |-> [segmentIndex |-> ks[i], map |-> FALSE]]


\* const minEnergy = solarPotential.solarPanels.slice(-1)[0].yearlyEnergyDcKwh;
\* with no panel, slice(-1)[0] is undefined and reading its property throws
\* a TypeError: nothing after that line runs.
Throws(panels) == Len(panels) = 0

\* What the code after the await makes of the answer's panels: the panel
\* polygons, the segment polygons and the segment labels, or an exception.
RenderResult(panels) ==
  IF Throws(panels)
  THEN [threw |-> TRUE, solarPanels |-> << >>,
        roofSegmentPolygons |-> << >>, roofSegmentLabels |-> << >>]
  ELSE [threw |-> FALSE, solarPanels |-> PanelPolygons(panels),
        roofSegmentPolygons |-> SegmentPolygons(panels),
        roofSegmentLabels |-> SegmentLabels(panels)]

\* ---------------------------------------------------- the segment filter
\* A filter string is a sequence of characters.
Digits == {"0", "1", "2"}
DigitValue(c) == CASE c = "0" -> 0 [] c = "1" -> 1 [] OTHER -> 2

\* String.prototype.trim
trim(s) ==
  LET solid == { i \in 1..Len(s) : s[i] # " " }
  IN  IF solid = {} THEN << >> ELSE SubSeq(s, MinOf(solid), MaxOf(solid))

\* String.prototype.split(','): the pieces between the commas, empty ones kept.
RECURSIVE split(_)
split(s) ==
  LET commas == { i \in 1..Len(s) : s[i] = "," }
  IN  IF commas = {} THEN << s >>
      ELSE << SubSeq(s, 1, MinOf(commas) - 1) >>
           \o split(SubSeq(s, MinOf(commas) + 1, Len(s)))

\* The value of a run of decimal digits.
RECURSIVE DecimalValue(_)
DecimalValue(ds) ==
  IF ds = << >> THEN 0
  ELSE 10 * DecimalValue(SubSeq(ds, 1, Len(ds) - 1)) + DigitValue(ds[Len(ds)])

\* Number(s) in place of parseInt(s): the whole trimmed string has to be a
\* signed run of digits, and the empty string is 0.
parseIntAsNumber(s) ==
  LET t == trim(s)
      signed == t # << >> /\ t[1] \in {"-", "+"}
      body == IF signed THEN Tail(t) ELSE t
  IN  IF t = << >> THEN Num(0)
      ELSE IF body = << >> \/ \E i \in 1..Len(body) : body[i] \notin Digits THEN NaN
      ELSE IF t[1] = "-" THEN Num(0 - DecimalValue(body))
      ELSE Num(DecimalValue(body))

\* parseInt: leading white space is skipped, then an optional sign, then
\* the longest run of digits; what follows is ignored; no digit gives NaN.
parseInt(s) ==
  LET t == trim(s)
      signed == t # << >> /\ t[1] \in {"-", "+"}
      body == IF signed THEN Tail(t) ELSE t
      stops == { i \in 1..Len(body) : body[i] \notin Digits }
      run == IF stops = {} THEN body ELSE SubSeq(body, 1, MinOf(stops) - 1)
  IN  IF run = << >> THEN NaN
      ELSE IF signed /\ t[1] = "-" THEN Num(0 - DecimalValue(run))
      ELSE Num(DecimalValue(run))

\* segmentFilter.trim() === "" ? null : ...   (is segmentNumbers null?)
NoFilter(filter) == trim(filter) = << >>

\* segmentFilter.split(',').map(s => parseInt(s.trim())).filter(n => !isNaN(n))
segmentNumbers(filter) ==
  LET tokens == split(filter)
      parsed == [i \in 1..Len(tokens) |-> parseInt(trim(tokens[i]))]
  IN  SelectSeq(parsed, LAMBDA n : n # NaN)

\* segmentNumbers.includes(segmentIndex)
includes(numbers, segmentIndex) ==
  \E i \in 1..Len(numbers) : numbers[i] = Num(segmentIndex)

\* The allow-list left out of the test.
shouldShowUnfiltered(show, filter, segmentIndex) == show

\* const shouldShow = showSegments && (segmentNumbers === null || segmentNumbers.includes(segmentIndex));
shouldShow(show, filter, segmentIndex) ==
  show /\ (NoFilter(filter) \/ includes(segmentNumbers(filter), segmentIndex))

\* shape.setMap(shouldShow ? map : null) on every shape of a list
SetSegmentMaps(shapes, show, filter) ==
  [i \in 1..Len(shapes) |->
     [shapes[i] EXCEPT !.map = shouldShow(show, filter, shapes[i].segmentIndex)]]

\* function updateSegmentVisibility(): the two lists as it leaves them.
SegmentsAfterUpdate(polygons, labels, show, filter) ==
  IF Len(polygons) = 0
  THEN << polygons, labels >>
  ELSE << SetSegmentMaps(polygons, show, filter),
          SetSegmentMaps(labels, show, filter) >>

\* ------------------------------------------------------ panel visibility
\* panel.setMap(...) of updatePanelVisibility for the panel at JavaScript
\* index i.
panelShouldShow(i, show, noAnimation, config) ==
  IF noAnimation THEN show
  ELSE show /\ config # Undefined /\ i < config.panelsCount

\* function updatePanelVisibility(): solarPanels as it leaves them.
PanelsAfterUpdate(panels, show, noAnimation, config) ==
  IF Len(panels) = 0 THEN panels
  ELSE [i \in 1..Len(panels) |->
          [panels[i] EXCEPT !.map = panelShouldShow(i - 1, show, noAnimation, config)]]

\* solarPanelConfigs[configId]: an index outside the array gives undefined.
ConfigAt(configs, id) ==
  IF id.value + 1 \in 1..Len(configs) THEN configs[id.value + 1] ELSE Undefined


\* ------------------------------------------------------- the component
Switches == {"showPanels", "disableAnimation", "showSegments"}
ConfigIds == {0, 1}
\* What the user types into the filter input of the running component.
FilterTexts == { << >>, << "0" >> }

\* The three <InputBool bind:value={...}> of the template.
SwitchValue(s) ==
  CASE s = "showPanels" -> showPanels
    [] s = "disableAnimation" -> disableAnimation
    [] OTHER -> showSegments

\* disabled={!showPanels} on the animation switch; the others have none.
SwitchDisabled(s) == s = "disableAnimation" /\ ~showPanels

\* {:else if configId !== undefined && panelConfig}: the branch of the
\* template that holds the controls.
ControlsShown ==
  /\ requestError = Undefined
  /\ buildingInsights # Undefined
  /\ configId # Undefined
  /\ panelConfig # Undefined

\* The guard left out.
RequestGuardOff == FALSE

\* if (requestSent) { return; }
RequestGuard == requestSent

\* The shapes left as they are: no setMap(null) before a list is emptied.
DetachOff(shapes) == shapes

\* shapes.map((shape) => shape.setMap(null))
Detach(shapes) == [i \in 1..Len(shapes) |-> [shapes[i] EXCEPT !.map = FALSE]]

\* The shapes of a list that are attached to the map.
Attached(shapes) == { i \in 1..Len(shapes) : shapes[i].map }

\* solarPanels = []; roofSegmentPolygons = []; roofSegmentLabels = [];
\* a shape still attached when its list lets go of it stays on the map.
Dropped(shapes) == Cardinality(Attached(Detach(shapes)))

\* The shapes of a list that its clearing has taken off the map.
Detached(shapes) == Cardinality(Attached(shapes)) - Dropped(shapes)

\* The finally block left out: requestSent keeps its value.
FinallyMissing == requestSent

\* finally { requestSent = false; }
AfterFinally == FALSE

\* The fetch issued for the component's location prop, not for the argument.
FetchOfProp(l) == [location |-> location, superseded |-> FALSE]

\* An outstanding findClosestBuilding(location, googleMapsApiKey).
\* superseded records that a later call was issued while it was outstanding.
Fetch(l) == [location |-> l, superseded |-> FALSE]
Supersede(fs) == [i \in 1..Len(fs) |-> [fs[i] EXCEPT !.superseded = TRUE]]
Without(fs, i) == SubSeq(fs, 1, i - 1) \o SubSeq(fs, i + 1, Len(fs))

\* detached tells that a call has taken shapes off the map.
Event(op, l, ok, e) ==
  [op |-> op, location |-> l, ok |-> ok, error |-> e, detached |-> FALSE]

visibility == <<showPanels, showSegments, segmentFilter, disableAnimation,
                selected, clicks>>
timers == <<panelTimers, segmentTimers, renderTimers>>
shapes == <<solarPanels, roofSegmentPolygons, roofSegmentLabels, orphans>>
unit == <<input, output>>

\* export async function showSolarPotential(location), up to the await.
\* Nothing it assigns makes a reactive statement act: buildingInsights is
\* undefined and solarPanels is empty.
showSolarPotential(l, op) ==
  IF RequestGuard
  THEN /\ event' = Event(op, l, FALSE, Undefined)
       /\ UNCHANGED <<buildingInsights, requestError, requestSent, fetches,
                      shapes>>
  ELSE /\ buildingInsights' = Undefined
       /\ requestError' = Undefined
       /\ orphans' = orphans + Dropped(solarPanels)
                       + Dropped(roofSegmentPolygons) + Dropped(roofSegmentLabels)
       /\ solarPanels' = << >>
       /\ roofSegmentPolygons' = << >>
       /\ roofSegmentLabels' = << >>
       /\ requestSent' = TRUE
       /\ fetches' = Append(Supersede(fetches), Fetch(l))
       /\ event' = [Event(op, l, TRUE, Undefined) EXCEPT
                      !.detached = Detached(solarPanels)
                                     + Detached(roofSegmentPolygons)
                                     + Detached(roofSegmentLabels) > 0]

\* After construction the reactive statements have run once: four timers
\* are set and showSolarPotential(location) has issued the first fetch.
Init ==
  /\ location \in Locations
  /\ buildingInsights = Undefined
  /\ configId = Undefined
  /\ showPanels = TRUE
  /\ requestSent = TRUE
  /\ requestError = Undefined
  /\ showSegments = TRUE
  /\ segmentFilter = << >>
  /\ disableAnimation = TRUE
  /\ panelConfig = Undefined
  /\ solarPanels = << >>
  /\ roofSegmentPolygons = << >>
  /\ roofSegmentLabels = << >>
  /\ fetches = << Fetch(location) >>
  /\ panelTimers = 2
  /\ segmentTimers = 2
  /\ renderTimers = 0
  /\ selected = [s \in Switches |-> TRUE]
  /\ clicks = [s \in Switches |-> FALSE]
  /\ orphans = 0
  /\ event = Event("show", location, TRUE, Undefined)
  /\ input = << >>
  /\ output = << >>

\* The parent sets the location prop:  $: showSolarPotential(location);
\* A LatLng is an object, so every assignment invalidates it.
LocationChange(l) ==
  /\ location' = l
  /\ showSolarPotential(l, "show")
  /\ UNCHANGED <<configId, panelConfig, visibility, timers, unit>>

\* <md-filled-button on:click={() => showSolarPotential(location)}>Retry
\* is in the {#if requestError} branch of the template.
Retry ==
  /\ requestError # Undefined
  /\ showSolarPotential(location, "retry")
  /\ UNCHANGED <<location, configId, panelConfig, visibility, timers, unit>>

\* $: if (buildingInsights && configId !== undefined) panelConfig = ...
ReactPanelConfig(insights, id) ==
  IF insights # Undefined /\ id # Undefined
  THEN ConfigAt(insights.solarPanelConfigs, id)
  ELSE panelConfig

\* The awaited findClosestBuilding resolves: the rest of showSolarPotential,
\* then the flush: panelConfig is recomputed and, solarPanels having been
\* assigned, $: if (solarPanels.length > 0) updatePanelVisibility() runs.
\* With no panel in the answer the function throws after the finally block.
Resolve(i) ==
  LET l == fetches[i].location
      answer == BuildingAt(l)
      config == ReactPanelConfig(answer, configId)
      render == RenderResult(answer.solarPanels)
  IN  /\ buildingInsights' = answer
      /\ requestSent' = AfterFinally
      /\ fetches' = Without(fetches, i)
      /\ panelConfig' = config
      /\ IF render.threw
         THEN /\ event' = Event("resolve", l, FALSE, Undefined)
              /\ UNCHANGED <<shapes, renderTimers>>
         ELSE /\ renderTimers < MaxRenderTimers
              /\ solarPanels' = PanelsAfterUpdate(render.solarPanels, showPanels,
                                                  disableAnimation, config)
              /\ roofSegmentPolygons' =
                   roofSegmentPolygons \o render.roofSegmentPolygons
              /\ roofSegmentLabels' =
                   roofSegmentLabels \o render.roofSegmentLabels
              /\ renderTimers' = renderTimers + 1
              /\ event' = Event("resolve", l, TRUE, Undefined)
              /\ UNCHANGED orphans
      /\ UNCHANGED <<location, configId, requestError, visibility,
                     panelTimers, segmentTimers, unit>>

\* The awaited findClosestBuilding rejects: catch, return, finally.
Reject(i, e) ==
  /\ requestError' = e
  /\ requestSent' = AfterFinally
  /\ fetches' = Without(fetches, i)
  /\ event' = Event("reject", fetches[i].location, FALSE, e)
  /\ UNCHANGED <<location, buildingInsights, configId, panelConfig,
                 visibility, timers, shapes, unit>>

\* configId is set (the parent, or <InputPanelsCount bind:configId>); the
\* flush recomputes panelConfig and runs no other reactive statement.
SetConfigId(c) ==
  /\ configId # Num(c)
  /\ configId' = Num(c)
  /\ panelConfig' = ReactPanelConfig(buildingInsights, Num(c))
  /\ UNCHANGED <<location, buildingInsights, requestSent, requestError,
                 fetches, visibility, timers, shapes, event, unit>>

\* A click on an md-switch: the switch flips its selected, and
\* InputBool.onClick sets a zero-delay timer.  A switch is clicked again
\* only after the timer of its previous click has fired.
Click(s) ==
  /\ ControlsShown
  /\ ~SwitchDisabled(s)
  /\ ~clicks[s]
  /\ selected' = [selected EXCEPT ![s] = ~selected[s]]
  /\ clicks' = [clicks EXCEPT ![s] = TRUE]
  /\ UNCHANGED <<location, buildingInsights, configId, requestSent,
                 requestError, fetches, panelConfig, showPanels, showSegments,
                 segmentFilter, disableAnimation, timers, shapes, event, unit>>

\* The timer of InputBool.onClick: value = target.selected; onChange(value)
\* sets a timer; the binding carries value to the section, whose reactive
\* statement on it sets another timer when the value changed.
ClickTimer(s) ==
  LET added == IF selected[s] # SwitchValue(s) THEN 2 ELSE 1
  IN  /\ clicks[s]
      /\ clicks' = [clicks EXCEPT ![s] = FALSE]
      /\ showPanels' = IF s = "showPanels" THEN selected[s] ELSE showPanels
      /\ disableAnimation' =
           IF s = "disableAnimation" THEN selected[s] ELSE disableAnimation
      /\ showSegments' = IF s = "showSegments" THEN selected[s] ELSE showSegments
      /\ IF s = "showSegments"
         THEN /\ segmentTimers + added <= MaxTimers
              /\ segmentTimers' = segmentTimers + added
              /\ UNCHANGED panelTimers
         ELSE /\ panelTimers + added <= MaxTimers
              /\ panelTimers' = panelTimers + added
              /\ UNCHANGED segmentTimers
      /\ UNCHANGED <<location, buildingInsights, configId, requestSent,
                     requestError, fetches, panelConfig, segmentFilter,
                     selected, renderTimers, shapes, event, unit>>

\* <input type="text" bind:value={segmentFilter} disabled={!showSegments}>;
\* $: if (segmentFilter !== undefined) setTimeout(updateSegmentVisibility, 0)
FilterInput(text) ==
  /\ ControlsShown
  /\ showSegments
  /\ text # segmentFilter
  /\ segmentTimers < MaxTimers
  /\ segmentFilter' = text
  /\ segmentTimers' = segmentTimers + 1
  /\ UNCHANGED <<location, buildingInsights, configId, requestSent,
                 requestError, fetches, panelConfig, showPanels, showSegments,
                 disableAnimation, selected, clicks, panelTimers, renderTimers,
                 shapes, event, unit>>

\* function updatePanelVisibility()
updatePanelVisibility ==
  solarPanels' = PanelsAfterUpdate(solarPanels, showPanels, disableAnimation,
                                   panelConfig)

\* function updateSegmentVisibility()
updateSegmentVisibility ==
  LET after == SegmentsAfterUpdate(roofSegmentPolygons, roofSegmentLabels,
                                   showSegments, segmentFilter)
  IN  /\ roofSegmentPolygons' = after[1]
      /\ roofSegmentLabels' = after[2]

\* setTimeout(() => updatePanelVisibility(), 0) fires.
PanelTimer ==
  /\ panelTimers > 0
  /\ panelTimers' = panelTimers - 1
  /\ updatePanelVisibility
  /\ UNCHANGED <<location, buildingInsights, configId, requestSent,
                 requestError, fetches, panelConfig, visibility, segmentTimers,
                 renderTimers, roofSegmentPolygons, roofSegmentLabels, orphans,
                 event, unit>>

\* setTimeout(() => updateSegmentVisibility(), 0) fires.
SegmentTimer ==
  /\ segmentTimers > 0
  /\ segmentTimers' = segmentTimers - 1
  /\ updateSegmentVisibility
  /\ UNCHANGED <<location, buildingInsights, configId, requestSent,
                 requestError, fetches, panelConfig, visibility, panelTimers,
                 renderTimers, solarPanels, orphans, event, unit>>

\* setTimeout(() => { updatePanelVisibility(); updateSegmentVisibility(); }, 50)
RenderTimer ==
  /\ renderTimers > 0
  /\ renderTimers' = renderTimers - 1
  /\ updatePanelVisibility
  /\ updateSegmentVisibility
  /\ UNCHANGED <<location, buildingInsights, configId, requestSent,
                 requestError, fetches, panelConfig, visibility, panelTimers,
                 segmentTimers, orphans, event, unit>>

Next ==
  \/ \E l \in Locations : LocationChange(l)
  \/ Retry
  \/ \E i \in 1..Len(fetches) : Resolve(i)
  \/ \E i \in 1..Len(fetches), e \in Errors : Reject(i, e)
  \/ \E c \in ConfigIds : SetConfigId(c)
  \/ \E s \in Switches : Click(s)
  \/ \E s \in Switches : ClickTimer(s)
  \/ \E text \in FilterTexts : FilterInput(text)
  \/ PanelTimer
  \/ SegmentTimer
  \/ RenderTimer

Spec == Init /\ [][Next]_vars

\* ------------------------------------- every fetch succeeds
\* The component with a findClosestBuilding that never rejects: there is
\* no requestError, so the Retry button is never shown.
NextFetchesSucceed ==
  \/ \E l \in Locations : LocationChange(l)
  \/ \E i \in 1..Len(fetches) : Resolve(i)
  \/ \E c \in ConfigIds : SetConfigId(c)
  \/ \E s \in Switches : Click(s)
  \/ \E s \in Switches : ClickTimer(s)
  \/ \E text \in FilterTexts : FilterInput(text)
  \/ PanelTimer
  \/ SegmentTimer
  \/ RenderTimer

FetchesSucceedSpec == Init /\ [][NextFetchesSucceed]_vars


\* ------------------------------------------ the rendering, on its own
\* The code after the await is a function of the answer's panels alone.
\* RenderSpec applies it to every panel list of three families: yields that
\* vary (listed by descending yield, as the API lists them), segment
\* indices that vary, and local positions that vary.
Coords == (0 - MaxCoord)..MaxCoord

SeqsUpTo(S, n) == { << >> } \cup UNION { [1..k -> S] : k \in 1..n }

Descending(ys) == \A i \in 1..(Len(ys) - 1) : ys[i] >= ys[i + 1]

YieldInputs ==
  { [i \in 1..Len(ys) |-> Panel(ys[i], 0, 0, 0)] :
      ys \in { zs \in SeqsUpTo(0..MaxYield, MaxPanels) :
                 zs # << >> /\ Descending(zs) } }

SegmentInputs ==
  { [i \in 1..Len(ss) |-> Panel(Len(ss) - i, ss[i], 0, 0)] :
      ss \in SeqsUpTo(0..MaxSegment, MaxPanels) }

PositionInputs ==
  { [i \in 1..Len(ps) |-> Panel(Len(ps) - i, 0, ps[i][1], ps[i][2])] :
      ps \in SeqsUpTo(Coords \X Coords, MaxMembers) \ { << >> } }

RenderInputs == YieldInputs \cup SegmentInputs \cup PositionInputs

\* The component with nothing going on: no fetch, no timer, nothing drawn.
AtRest ==
  /\ location = 1
  /\ buildingInsights = Undefined
  /\ configId = Undefined
  /\ showPanels = TRUE
  /\ requestSent = FALSE
  /\ requestError = Undefined
  /\ disableAnimation = TRUE
  /\ panelConfig = Undefined
  /\ solarPanels = << >>
  /\ fetches = << >>
  /\ panelTimers = 0
  /\ segmentTimers = 0
  /\ renderTimers = 0
  /\ selected = [s \in Switches |-> TRUE]
  /\ clicks = [s \in Switches |-> FALSE]
  /\ orphans = 0
  /\ event = Event("show", 1, FALSE, Undefined)

InitRender ==
  /\ AtRest
  /\ showSegments = TRUE
  /\ segmentFilter = << >>
  /\ roofSegmentPolygons = << >>
  /\ roofSegmentLabels = << >>
  /\ input \in RenderInputs
  /\ output = << >>

Render ==
  /\ output = << >>
  /\ output' = << RenderResult(input) >>
  /\ UNCHANGED <<location, buildingInsights, configId, requestSent,
                 requestError, fetches, panelConfig, visibility, timers,
                 shapes, event, input>>

RenderSpec == InitRender /\ [][Render]_vars

\* ------------------------------------- the segment filter, on its own
\* FilterSpec runs updateSegmentVisibility once for every filter string of
\* at most MaxFilterLen characters, either state of showSegments, and the
\* segment shapes of a rendered roof, all attached or all detached before.
FilterAlphabet == {"0", "1", "2", "a", ",", " ", "-"}
FilterStrings == SeqsUpTo(FilterAlphabet, MaxFilterLen)

\* The segment indices of the panels of the roofs whose shapes are filtered.
FilterRoofs == { << 0, 1, 2 >>, << 2, 0 >>, << 1 >>, << >> }

RoofPanels(ss) == [i \in 1..Len(ss) |-> Panel(Len(ss) - i, ss[i], 0, 0)]

SetMaps(list, attached) ==
  [i \in 1..Len(list) |-> [list[i] EXCEPT !.map = attached]]

InitFilter ==
  /\ AtRest
  /\ showSegments \in BOOLEAN
  /\ segmentFilter \in FilterStrings
  /\ \E ss \in FilterRoofs, attached \in BOOLEAN :
       /\ roofSegmentPolygons = SetMaps(SegmentPolygons(RoofPanels(ss)), attached)
       /\ roofSegmentLabels = SetMaps(SegmentLabels(RoofPanels(ss)), attached)
  /\ input = << >>
  /\ output = << >>

ApplyFilter ==
  /\ output = << >>
  /\ updateSegmentVisibility
  /\ output' = << "updateSegmentVisibility" >>
  /\ UNCHANGED <<location, buildingInsights, configId, requestSent,
                 requestError, fetches, panelConfig, visibility, timers,
                 solarPanels, orphans, event, input>>

FilterSpec == InitFilter /\ [][ApplyFilter]_vars


\* =============================================================== claims
ListsEmpty ==
  solarPanels = << >> /\ roofSegmentPolygons = << >> /\ roofSegmentLabels = << >>

\* ------------------------------------------------------------------ C1
\* C1: at most one building-insights fetch is outstanding at any time, and
\* requestSent is true exactly while it is; so a call of showSolarPotential
\* made while requestSent is true has issued no fetch.
AtMostOneFetchInFlight ==
  /\ Len(fetches) <= 1
  /\ requestSent <=> Len(fetches) = 1
  /\ (event.op \in {"show", "retry"} /\ ~event.ok) => Len(fetches) = 1

\* A location change arrived while the fetch for another location was
\* outstanding, and its call returned at the guard.
CallDroppedInFlight ==
  /\ event.op = "show" /\ ~event.ok
  /\ requestSent
  /\ Len(fetches) = 1 /\ fetches[1].location # event.location

\* ------------------------------------------------------------------ C2
\* C2 as stated: every call of showSolarPotential(location), also one made
\* while an earlier request is in flight, has cleared the shapes and issued
\* a fetch for its location.
EveryCallSupersedes ==
  event.op = "show" =>
    /\ event.ok
    /\ ListsEmpty
    /\ fetches # << >>
    /\ fetches[Len(fetches)].location = event.location

\* C2, amended: a call of showSolarPotential(location) made while no request
\* is in flight clears the panel, segment and label shapes and issues a
\* fetch for the given location; a call made while a request is in flight
\* changes nothing: no shape is cleared and no fetch is issued.
CallSupersedesWhenIdle ==
  [][ (event' # event /\ event'.op \in {"show", "retry"}) =>
        IF requestSent
        THEN /\ ~event'.ok
             /\ UNCHANGED <<buildingInsights, requestError, requestSent,
                            fetches, shapes>>
        ELSE /\ event'.ok
             /\ ListsEmpty'
             /\ buildingInsights' = Undefined
             /\ requestSent'
             /\ Len(fetches') = Len(fetches) + 1
             /\ fetches'[Len(fetches')].location = event'.location
             /\ event'.location = location' ]_vars

\* A call has just cleared the shapes of a roof that had been rendered (its
\* panelConfig is still there) and has its fetch outstanding.
SupersedingCallCleared ==
  /\ event.op = "show" /\ event.ok
  /\ panelConfig # Undefined
  /\ ListsEmpty
  /\ requestSent

\* ------------------------------------------------------------------ C3
\* C3 as stated needs two fetches outstanding together, the earlier one
\* superseded by the request for a newer location, so that it can resolve
\* after the newer one.  Said of every such request: after a request for a
\* location other than that of an outstanding fetch, the earlier fetch is
\* outstanding beside a newer one.
SupersededFetchStaysInFlight ==
  (event.op = "show" /\ fetches # << >> /\ fetches[1].location # event.location)
    => Len(fetches) >= 2

\* C3, amended: no fetch is ever outstanding when a newer one is issued, so
\* no fetch resolves after a newer one; the result of the one fetch is
\* assigned to buildingInsights whatever the location prop has become.
NoStaleResponseRace ==
  /\ \A i \in 1..Len(fetches) : ~fetches[i].superseded
  /\ event.op = "resolve" =>
       /\ buildingInsights # Undefined
       /\ buildingInsights.name = event.location

\* The location changed while the fetch was outstanding, and the result of
\* that one fetch has been assigned and rendered.
ResultOfEarlierLocationRendered ==
  /\ event.op = "resolve" /\ event.ok
  /\ buildingInsights # Undefined
  /\ buildingInsights.name # location
  /\ solarPanels # << >>

\* ------------------------------------------------------------------ C4
\* C4: when findClosestBuilding fails, the error is stored unchanged in
\* requestError, buildingInsights stays undefined, the three shape lists
\* stay empty and requestSent is false again; Retry is offered only then,
\* and a Retry issues a new fetch for the location.
FetchFailureAbortsRender ==
  /\ event.op = "reject" =>
       /\ requestError = event.error
       /\ buildingInsights = Undefined
       /\ ListsEmpty
       /\ ~requestSent
  /\ requestError # Undefined => ~requestSent
  /\ event.op = "retry" =>
       /\ event.ok
       /\ requestSent
       /\ requestError = Undefined
       /\ fetches # << >>
       /\ fetches[Len(fetches)].location = location

\* A roof had been rendered, a later fetch failed, and Retry has issued a
\* new fetch.
RetryAfterFailure ==
  /\ event.op = "retry" /\ event.ok
  /\ panelConfig # Undefined
  /\ requestSent

\* ------------------------------------------------------------------ C5
\* The filter strings that list the segments 0 and 2.
ZeroTwoFilters == { << "0", ",", "2" >>, << "2", ",", "0" >> }

AttachedExactly(list, indices) ==
  \A i \in 1..Len(list) : list[i].map <=> list[i].segmentIndex \in indices

\* C5 as stated: after updateSegmentVisibility has run with the filter list
\* {0, 2}, exactly the polygons and labels of the segments 0 and 2 are
\* attached, whatever showSegments is.
AllowListRegardlessOfShowFlag ==
  (output # << >> /\ segmentFilter \in ZeroTwoFilters) =>
    /\ AttachedExactly(roofSegmentPolygons, {0, 2})
    /\ AttachedExactly(roofSegmentLabels, {0, 2})

\* C5, amended: after updateSegmentVisibility has run with the filter list
\* {0, 2}, no polygon or label of another segment is attached whatever
\* showSegments is; those of the segments 0 and 2 are attached if
\* showSegments is true, and none is attached if it is false.
AllowListUnderShowFlag ==
  (output # << >> /\ segmentFilter \in ZeroTwoFilters) =>
    /\ AttachedExactly(roofSegmentPolygons, IF showSegments THEN {0, 2} ELSE {})
    /\ AttachedExactly(roofSegmentLabels, IF showSegments THEN {0, 2} ELSE {})

\* The filter 0,2 has hidden segment 1 of a roof with the segments 0, 1, 2.
AllowListApplied ==
  /\ output # << >>
  /\ segmentFilter \in ZeroTwoFilters
  /\ showSegments
  /\ Len(roofSegmentPolygons) = 3
  /\ { roofSegmentPolygons[i].segmentIndex : i \in Attached(roofSegmentPolygons) }
       = {0, 2}
  /\ { roofSegmentLabels[i].segmentIndex : i \in Attached(roofSegmentLabels) }
       = {0, 2}

\* ------------------------------------------------------------------ C6
\* A token parses as an integer when, after white space and an optional
\* sign, it starts with a digit.
ParsesAsInteger(token) ==
  \E i \in 1..Len(token) :
    /\ token[i] \in Digits
    /\ \/ \A j \in 1..(i - 1) : token[j] = " "
       \/ /\ i > 1
          /\ token[i - 1] \in {"-", "+"}
          /\ \A j \in 1..(i - 2) : token[j] = " "

RECURSIVE JoinTokens(_)
JoinTokens(tokens) ==
  IF Len(tokens) = 0 THEN << >>
  ELSE IF Len(tokens) = 1 THEN tokens[1]
  ELSE tokens[1] \o << "," >> \o JoinTokens(Tail(tokens))

\* The filter string with every token that does not parse removed.
WithoutUnparseable(filter) ==
  JoinTokens(SelectSeq(split(filter), ParsesAsInteger))

ShownAsFor(list, filter) ==
  \A i \in 1..Len(list) :
    list[i].map <=> shouldShow(showSegments, filter, list[i].segmentIndex)

\* C6 as stated: for every filter string, updateSegmentVisibility shows the
\* segments it shows for the string without its unparseable tokens.
UnparseableTokensIgnored ==
  output # << >> =>
    /\ ShownAsFor(roofSegmentPolygons, WithoutUnparseable(segmentFilter))
    /\ ShownAsFor(roofSegmentLabels, WithoutUnparseable(segmentFilter))

\* C6, amended: for every filter string that is blank or holds a token that
\* parses as an integer, updateSegmentVisibility shows the segments it
\* shows for the string without its unparseable tokens; for a string that
\* is not blank and holds no token that parses, it shows no segment.
UnparseableTokensIgnoredIfSomeParse ==
  output # << >> =>
    IF \/ \A i \in 1..Len(segmentFilter) : segmentFilter[i] = " "
       \/ \E i \in 1..Len(split(segmentFilter)) :
            ParsesAsInteger(split(segmentFilter)[i])
    THEN /\ ShownAsFor(roofSegmentPolygons, WithoutUnparseable(segmentFilter))
         /\ ShownAsFor(roofSegmentLabels, WithoutUnparseable(segmentFilter))
    ELSE /\ Attached(roofSegmentPolygons) = {}
         /\ Attached(roofSegmentLabels) = {}

\* The filter a,2 has left segment 2 alone attached.
UnparseableTokenSkipped ==
  /\ output # << >>
  /\ segmentFilter = << "a", ",", "2" >>
  /\ showSegments
  /\ Len(roofSegmentPolygons) = 3
  /\ { roofSegmentPolygons[i].segmentIndex : i \in Attached(roofSegmentPolygons) }
       = {2}

\* ------------------------------------------------------------------ C7
\* C7: for every roof with at least one panel, panels listed by descending
\* yield, each panel's colour index is an integer in 0..255 that names a
\* colour of the palette; the panel of the highest yield gets 255 and that
\* of the lowest gets 0 when the two differ, and when all yields are equal
\* every panel gets one fixed colour of the palette.
ColourIndexInRange ==
  (output # << >> /\ input # << >>) =>
    LET drawn == output[1].solarPanels
    IN  /\ ~output[1].threw
        /\ Len(drawn) = Len(input)
        /\ \A i \in 1..Len(drawn) : drawn[i].fillColor # Undefined
        /\ maxEnergy(input) # minEnergy(input) =>
             /\ drawn[1].fillColor = [color |-> 255]
             /\ drawn[Len(drawn)].fillColor = [color |-> 0]
        /\ maxEnergy(input) = minEnergy(input) =>
             \A i \in 1..Len(drawn) : drawn[i].fillColor = drawn[1].fillColor

\* ------------------------------------------------------------------ C8
MembersOf(segmentIndex) ==
  SelectSeq(input, LAMBDA p : p.segmentIndex = segmentIndex)

RawWidth(members) ==
  MaxOf({ members[i].x : i \in 1..Len(members) })
    - MinOf({ members[i].x : i \in 1..Len(members) })

RawHeight(members) ==
  MaxOf({ members[i].y : i \in 1..Len(members) })
    - MinOf({ members[i].y : i \in 1..Len(members) })

\* C8: the box of every segment polygon is at least minSize wide and high,
\* at least 1.2 times the raw extent on an axis whose raw extent exceeds
\* minSize, and holds the local position of every member panel.  (Box
\* corners are in tenths of a metre, positions and minSize in metres.)
SegmentBoxCoversMembers ==
  output # << >> =>
    \A k \in 1..Len(output[1].roofSegmentPolygons) :
      LET box == output[1].roofSegmentPolygons[k].box
          members == MembersOf(output[1].roofSegmentPolygons[k].segmentIndex)
      IN  /\ members # << >>
          /\ box.maxX - box.minX >= 10 * minSize
          /\ box.maxY - box.minY >= 10 * minSize
          /\ RawWidth(members) > minSize =>
               box.maxX - box.minX >= 12 * RawWidth(members)
          /\ RawHeight(members) > minSize =>
               box.maxY - box.minY >= 12 * RawHeight(members)
          /\ \A i \in 1..Len(members) :
               /\ box.minX <= 10 * members[i].x /\ 10 * members[i].x <= box.maxX
               /\ box.minY <= 10 * members[i].y /\ 10 * members[i].y <= box.maxY

\* A segment wider than minSize and flatter than it: the box is padded
\* along x and brought up to the minimum size along y.
BoxPaddedAndClamped ==
  /\ output # << >>
  /\ Len(output[1].roofSegmentPolygons) = 1
  /\ Len(input) > 1
  /\ RawWidth(input) > minSize
  /\ RawHeight(input) > 0 /\ RawHeight(input) < minSize
  /\ output[1].roofSegmentPolygons[1].box.maxX
       - output[1].roofSegmentPolygons[1].box.minX = 12 * RawWidth(input)
  /\ output[1].roofSegmentPolygons[1].box.maxY
       - output[1].roofSegmentPolygons[1].box.minY = 10 * minSize

\* ------------------------------------------------------------------ C9
\* C9: for every answer, rendering raises no error; a segment that no panel
\* names gets no polygon and no label, every segment index that a panel
\* names gets exactly one polygon and one label, and the polygon and label
\* lists agree in length and, place by place, in segmentIndex.
EmptySegmentsDegradeGracefully ==
  output # << >> =>
    LET polygons == output[1].roofSegmentPolygons
        labels == output[1].roofSegmentLabels
        named == { input[i].segmentIndex : i \in 1..Len(input) }
    IN  /\ ~output[1].threw
        /\ Len(polygons) = Len(labels)
        /\ \A k \in 1..Len(polygons) :
             polygons[k].segmentIndex = labels[k].segmentIndex
        /\ { polygons[k].segmentIndex : k \in 1..Len(polygons) } = named
        /\ Len(polygons) = Cardinality(named)

\* ----------------------------------------------------------------- C10
\* No fetch is outstanding and no timer is pending.
Quiescent ==
  /\ fetches = << >>
  /\ panelTimers = 0 /\ segmentTimers = 0 /\ renderTimers = 0
  /\ \A s \in Switches : ~clicks[s]

\* C10: once no timer is pending and no fetch is in flight, panel i is
\* attached exactly if showPanels is true and either disableAnimation is
\* true or panelConfig is defined and i < panelConfig.panelsCount.
PanelVisibilityFollowsParameters ==
  Quiescent =>
    \A i \in 1..Len(solarPanels) :
      solarPanels[i].map <=>
        /\ showPanels
        /\ \/ disableAnimation
           \/ panelConfig # Undefined /\ i - 1 < panelConfig.panelsCount

\* ----------------------------------------------------------------- C11
\* C11: no shape is attached to the map without being a member of the
\* current solarPanels, roofSegmentPolygons or roofSegmentLabels list: the
\* shapes that a new request dropped from the lists were detached first;
\* and while a fetch is in flight the lists are empty, so no shape is
\* attached at all.
NoOrphanShapes ==
  /\ orphans = 0
  /\ requestSent =>
       /\ ListsEmpty
       /\ Attached(solarPanels) = {}
       /\ Attached(roofSegmentPolygons) = {}
       /\ Attached(roofSegmentLabels) = {}

\* A new request has taken the attached shapes of a rendered roof off the
\* map and emptied the lists, and its fetch is in flight.
AttachedShapesDetachedAndDropped ==
  /\ event.op = "show" /\ event.ok
  /\ event.detached
  /\ requestSent
  /\ ListsEmpty
  /\ orphans = 0
\* ----------------------------------------------------------------- C12
\* The shapes of a list, whatever map they are on.
OffMap(list) == [i \in 1..Len(list) |-> [list[i] EXCEPT !.map = FALSE]]

\* buildingInsights and the three lists are those of the answer for l.
DisplayIsOf(l) ==
  LET render == RenderResult(BuildingAt(l).solarPanels)
  IN  /\ buildingInsights = BuildingAt(l)
      /\ OffMap(solarPanels) = render.solarPanels
      /\ OffMap(roofSegmentPolygons) = render.roofSegmentPolygons
      /\ OffMap(roofSegmentLabels) = render.roofSegmentLabels

\* C12 as stated: when every fetch succeeds, once no fetch is in flight
\* and no timer is pending, buildingInsights and the rendered shapes are
\* those fetched for the location most recently passed to
\* showSolarPotential, which is the location prop.
DisplayConvergesToLatestLocation ==
  Quiescent => DisplayIsOf(location)

====
